---- MODULE Spec2Model ----
(***************************************************************************)
(* Conversation-session state machine of src/Chat_bot.py: the transcript   *)
(* st.session_state.messages, the reachability flag                        *)
(* st.session_state.ollama_connected, and the operations that act on them  *)
(* (check_ollama_connection, the sidebar buttons, the chat form handler    *)
(* and generate_response, step by step).                                   *)
(*                                                                         *)
(* Python strings are sequences of characters; Python values (str, None,   *)
(* dict, list) are records tagged by their type in field t.                *)
(***************************************************************************)
EXTENDS Integers, Sequences, FiniteSets, TLC

(* ------------------------------ bounds -------------------------------- *)

\* generate_response calls per behaviour
MaxCalls == 3

\* generate_response calls per behaviour when script runs overlap
MaxOverlapCalls == 2

\* exchanges (user turn + assistant turn) of the longest stored transcript
\* a behaviour of SpecLong starts from
MaxPrior == 11

\* number of different prior transcripts SpecLong starts from
PriorSpan == 3

(* ------------------------- program constants -------------------------- *)

\* st.session_state.messages[-20:] if len(...) > 20
HistoryWindow == 20

\* response.status_code == 200
StatusOK == 200

\* 'Sorry, I could not generate a response.'
FallbackText == <<"Sorry, I could not generate a response.">>

\* the system_prompt argument (the sidebar text area's value)
SystemPrompt == <<"You are Flasq">>

(* --------------------------- Python values ---------------------------- *)

PyStr(s) == [t |-> "str", s |-> s]

PyNone == [t |-> "none"]

PyList == [t |-> "list"]

\* a dict is its set of <<key, value>> items
PyDict(items) == [t |-> "dict", items |-> items]

\* the value of an expression that raised instead of returning
Raised == [t |-> "raise"]

\* dict.get(key, default); on anything but a dict the attribute lookup
\* .get raises AttributeError, and a raise inside the chain propagates
PyGet(d, key, default) ==
    IF d.t = "dict"
    THEN IF \E it \in d.items : it[1] = key
         THEN (CHOOSE it \in d.items : it[1] = key)[2]
         ELSE default
    ELSE Raised

\* characters str.strip() removes
Whitespace == {" ", "\t", "\n", "\r"}

RECURSIVE lstrip(_)
lstrip(s) ==
    IF Len(s) > 0 /\ Head(s) \in Whitespace THEN lstrip(Tail(s)) ELSE s

RECURSIVE rstrip(_)
rstrip(s) ==
    IF Len(s) > 0 /\ s[Len(s)] \in Whitespace
    THEN rstrip(SubSeq(s, 1, Len(s) - 1))
    ELSE s

\* str.strip()
strip(s) == rstrip(lstrip(s))

\* truth value of a str
Truthy(s) == Len(s) > 0

\* s[-n:] for n > 0
SliceLast(s, n) == SubSeq(s, IF Len(s) > n THEN Len(s) - n + 1 ELSE 1, Len(s))

(* ------------------------------ inputs -------------------------------- *)

\* script runs of one session (each rerun executes the script top to bottom)
Runs == {"run1", "run2"}

\* what the user types into the chat form
UserInputs ==
    { <<>>, <<" ", "\t">>, <<"h", "i">>, <<" ", "y", "o", " ">> }

Turn(role, content) == [role |-> role, content |-> content]

\* a requests call either raises or returns a response
Response(exc, status, valid, json) ==
    [exc |-> exc, status |-> status, valid |-> valid, json |-> json]

\* bodies of a 200 answer to POST /api/chat: valid says whether
\* response.json() parses, json is the parsed value
ChatBodies ==
    { [valid |-> TRUE,
       json |-> PyDict({<<"message", PyDict({<<"role", PyStr(<<"assistant">>)>>,
                                             <<"content", PyStr(<<"o", "k">>)>>})>>})],
      [valid |-> TRUE, json |-> PyDict({<<"error", PyStr(<<"e">>)>>})],
      [valid |-> TRUE, json |-> PyDict({<<"message", PyDict({})>>})],
      [valid |-> TRUE, json |-> PyDict({<<"message", PyStr(<<"o", "k">>)>>})],
      [valid |-> TRUE, json |-> PyDict({<<"message", PyNone>>})],
      [valid |-> TRUE, json |-> PyDict({<<"message", PyDict({<<"content", PyNone>>})>>})],
      [valid |-> TRUE, json |-> PyList],
      [valid |-> FALSE, json |-> PyNone] }

\* subclasses of the exception classes the handlers name: ConnectTimeout
\* derives from both ConnectionError and Timeout
ExceptionBases(exc) ==
    CASE exc = "Timeout" -> {"Timeout", "RequestException", "Exception"}
      [] exc = "ConnectTimeout" ->
            {"Timeout", "ConnectionError", "RequestException", "Exception"}
      [] exc = "ConnectionError" -> {"ConnectionError", "RequestException", "Exception"}
      [] exc = "InvalidSchema" -> {"RequestException", "Exception"}
      [] exc = "JSONDecodeError" -> {"RequestException", "Exception"}
      [] exc = "AttributeError" -> {"Exception"}
      [] OTHER -> {}

\* outcomes of requests.post(.../api/chat, timeout=60)
PostResults ==
    { Response(e, 0, FALSE, PyNone) :
        e \in {"Timeout", "ConnectTimeout", "ConnectionError", "InvalidSchema"} }
    \cup { Response("none", StatusOK, b.valid, b.json) : b \in ChatBodies }
    \cup { Response("none", s, FALSE, PyNone) : s \in {201, 404, 500} }

\* outcomes of requests.get(.../api/tags, timeout=5)
TagsResults ==
    { Response(e, 0, FALSE, PyNone) : e \in {"Timeout", "ConnectionError"} }
    \cup { Response("none", s, FALSE, PyNone) : s \in {StatusOK, 204, 500} }

(* --------------------- pure parts of the handlers --------------------- *)

\* ConnectionOK without the test of the status code
ConnectionOKAnyAnswer(res) == res.exc = "none"

\* check_ollama_connection's result, stored in ollama_connected
ConnectionOK(res) == res.exc = "none" /\ res.status = StatusOK

\* chat form: if submit_button and user_input and ollama_status
FormCalls(user_input, status) == Truthy(user_input) /\ status

\* IsBlank with the strip forgotten
IsBlankUnstripped(text) == ~Truthy(text)

\* generate_response: if not user_text.strip()
IsBlank(text) == ~Truthy(strip(text))

\* Unavailable with the test inverted
UnavailableInverted(connected) == connected

\* generate_response: if not st.session_state.ollama_connected
Unavailable(connected) == ~connected

\* AppendUser trimming the stored transcript to the history window
AppendUserWindowed(msgs, text) ==
    SliceLast(Append(msgs, Turn("user", PyStr(text))), HistoryWindow)

\* AppendUser storing the stripped text
AppendUserStripped(msgs, text) == Append(msgs, Turn("user", PyStr(strip(text))))

\* st.session_state.messages.append({"role": "user", "content": user_text})
AppendUser(msgs, text) == Append(msgs, Turn("user", PyStr(text)))

\* BuildMessages sending the whole transcript
BuildMessagesUnbounded(system_prompt, msgs) ==
    <<Turn("system", PyStr(system_prompt))>>
    \o [i \in 1..Len(msgs) |-> Turn(msgs[i].role, msgs[i].content)]

\* BuildMessages slicing the oldest turns, messages[:20]
BuildMessagesOldest(system_prompt, msgs) ==
    LET recent == IF Len(msgs) > HistoryWindow
                  THEN SubSeq(msgs, 1, HistoryWindow)
                  ELSE msgs
    IN  <<Turn("system", PyStr(system_prompt))>>
        \o [i \in 1..Len(recent) |-> Turn(recent[i].role, recent[i].content)]

\* messages = [system] + the recent turns, copied field by field
BuildMessages(system_prompt, msgs) ==
    LET recent == IF Len(msgs) > HistoryWindow
                  THEN SliceLast(msgs, HistoryWindow)
                  ELSE msgs
    IN  <<Turn("system", PyStr(system_prompt))>>
        \o [i \in 1..Len(recent) |-> Turn(recent[i].role, recent[i].content)]

\* AiResponse indexing result['message'] instead of .get('message', {})
AiResponseIndexed(result) ==
    PyGet(PyGet(result, "message", Raised), "content", PyStr(FallbackText))

\* result.get('message', {}).get('content', <fallback>)
AiResponse(result) ==
    PyGet(PyGet(result, "message", PyDict({})), "content", PyStr(FallbackText))

\* the exception the try body raises after a response arrived, "none" if none
BodyException(res) ==
    IF res.status # StatusOK THEN "none"
    ELSE IF ~res.valid THEN "JSONDecodeError"
    ELSE IF AiResponse(res.json) = Raised THEN "AttributeError"
    ELSE "none"

\* the exception, if any, that leaves the try body
TryException(res) == IF res.exc # "none" THEN res.exc ELSE BodyException(res)

\* Classify with the ConnectionError clause ahead of the Timeout clause
ClassifyConnectionFirst(res) ==
    LET e == TryException(res)
    IN  IF e = "none"
        THEN IF res.status = StatusOK
             THEN [kind |-> "Success", code |-> res.status]
             ELSE [kind |-> "BadStatus", code |-> res.status]
        ELSE IF "ConnectionError" \in ExceptionBases(e)
             THEN [kind |-> "ConnectionRefused", code |-> 0]
        ELSE IF "Timeout" \in ExceptionBases(e)
             THEN [kind |-> "Timeout", code |-> 0]
        ELSE [kind |-> "Unknown", code |-> 0]

\* which branch reports the outcome: the st.success / st.error that runs
Classify(res) ==
    LET e == TryException(res)
    IN  IF e = "none"
        THEN IF res.status = StatusOK
             THEN [kind |-> "Success", code |-> res.status]
             ELSE [kind |-> "BadStatus", code |-> res.status]
        ELSE IF "Timeout" \in ExceptionBases(e)
             THEN [kind |-> "Timeout", code |-> 0]
        ELSE IF "ConnectionError" \in ExceptionBases(e)
             THEN [kind |-> "ConnectionRefused", code |-> 0]
        ELSE [kind |-> "Unknown", code |-> 0]

\* AppendAssistant storing nothing when the reply is None
AppendAssistantUnlessNone(msgs, res) ==
    IF AiResponse(res.json) = PyNone
    THEN msgs
    ELSE Append(msgs, Turn("assistant", AiResponse(res.json)))

\* st.session_state.messages.append({"role": "assistant", "content": ai_response})
AppendAssistant(msgs, res) == Append(msgs, Turn("assistant", AiResponse(res.json)))

\* Rollback with the pop forgotten
RollbackNoPop(msgs) == msgs

\* Rollback testing for the wrong role
RollbackWrongRole(msgs) ==
    IF Len(msgs) > 0 /\ msgs[Len(msgs)].role = "assistant"
    THEN SubSeq(msgs, 1, Len(msgs) - 1)
    ELSE msgs

\* if messages and messages[-1]["role"] == "user": messages.pop()
Rollback(msgs) ==
    IF Len(msgs) > 0 /\ msgs[Len(msgs)].role = "user"
    THEN SubSeq(msgs, 1, Len(msgs) - 1)
    ELSE msgs

\* Cleared popping the last turn instead of assigning the empty list
ClearedPopLast(msgs) == SubSeq(msgs, 1, Len(msgs) - 1)

\* st.session_state.messages = []
Cleared(msgs) == <<>>

\* AfterHandle with the request repeated after a timeout
AfterHandleRetry(fb) ==
    IF fb.kind = "Success" THEN "notify"
    ELSE IF fb.kind = "Timeout" THEN "post"
    ELSE "returned"

\* where generate_response goes on once the response is handled: to the
\* success notice of lines 287-288, or off the end of the function (there is
\* no loop around requests.post)
AfterHandle(fb) == IF fb.kind = "Success" THEN "notify" ELSE "returned"

(* ------------------------------- state -------------------------------- *)

VARIABLES
    messages,          \* st.session_state.messages
    ollama_connected,  \* st.session_state.ollama_connected
    pc,                \* where each script run is
    ollama_status,     \* the script's local ollama_status (line 316)
    user_text,         \* generate_response's argument
    payload,           \* payload["messages"] of the request being made
    response,          \* what requests.post returned or raised
    feedback,          \* the st.warning / st.error / st.success shown
    pre,               \* history: the transcript when generate_response was called
    posts,             \* history: POST requests issued by the current call
    calls,             \* history: generate_response calls so far
    retry,             \* history: the current streak of failed calls
    owners,            \* history: the run under way that appended each turn
    last_check         \* history: the answer to the latest GET /api/tags

vars ==
    <<messages, ollama_connected, pc, ollama_status, user_text, payload,
      response, feedback, pre, posts, calls, retry, owners, last_check>>

NoFeedback == [kind |-> "none", code |-> 0]

NoResponse == Response("unset", 0, FALSE, PyNone)

NoRetry == [text |-> <<>>, base |-> <<>>, fails |-> 0]

NoCheck == Response("unset", 0, FALSE, PyNone)

\* history: the turns of run r belong to a call that is over
Retire(own, r) == [i \in 1..Len(own) |-> IF own[i] = r THEN "old" ELSE own[i]]

\* a transcript of n completed exchanges; turn i holds the text of i
PriorTranscript(n) ==
    [i \in 1..(2 * n) |->
        Turn(IF i % 2 = 1 THEN "user" ELSE "assistant", PyStr(<<ToString(i)>>))]

Locals ==
    /\ pc = [r \in Runs |-> "idle"]
    /\ ollama_status = [r \in Runs |-> FALSE]
    /\ user_text = [r \in Runs |-> <<>>]
    /\ payload = [r \in Runs |-> <<>>]
    /\ response = [r \in Runs |-> NoResponse]
    /\ feedback = [r \in Runs |-> NoFeedback]
    /\ pre = [r \in Runs |-> <<>>]
    /\ posts = [r \in Runs |-> 0]
    /\ calls = 0
    /\ retry = NoRetry

\* lines 169-176: a new session
Init ==
    /\ messages = <<>>
    /\ ollama_connected = FALSE
    /\ owners = <<>>
    /\ last_check = NoCheck
    /\ Locals

\* a session that already holds a long conversation
InitLong ==
    /\ messages \in
         { PriorTranscript(n) : n \in (MaxPrior - PriorSpan + 1)..MaxPrior }
    /\ ollama_connected = TRUE
    /\ owners = [i \in 1..Len(messages) |-> "old"]
    /\ last_check \in {res \in TagsResults : ConnectionOK(res)}
    /\ Locals

(* ----------------------------- the script ----------------------------- *)

\* line 316: ollama_status = check_ollama_connection()
script_start(r, res) ==
    /\ pc[r] = "idle"
    /\ ollama_connected' = ConnectionOK(res)
    /\ ollama_status' = [ollama_status EXCEPT ![r] = ConnectionOK(res)]
    /\ last_check' = res
    /\ pc' = [pc EXCEPT ![r] = "widgets"]
    /\ UNCHANGED <<messages, user_text, payload, response, feedback, pre,
                   posts, calls, retry, owners>>

\* the run ends (st.rerun, or the end of the script): its locals are gone
EndRun(r) ==
    /\ pc' = [pc EXCEPT ![r] = "idle"]
    /\ ollama_status' = [ollama_status EXCEPT ![r] = FALSE]
    /\ user_text' = [user_text EXCEPT ![r] = <<>>]
    /\ payload' = [payload EXCEPT ![r] = <<>>]
    /\ response' = [response EXCEPT ![r] = NoResponse]
    /\ feedback' = [feedback EXCEPT ![r] = NoFeedback]
    /\ pre' = [pre EXCEPT ![r] = <<>>]
    /\ posts' = [posts EXCEPT ![r] = 0]
    /\ owners' = Retire(owners, r)

\* lines 371-373: the Refresh button
refresh_button(r, res) ==
    /\ pc[r] = "widgets"
    /\ ollama_connected' = ConnectionOK(res)
    /\ last_check' = res
    /\ EndRun(r)
    /\ UNCHANGED <<messages, calls, retry>>

\* lines 376-377: the Clear Chat button
clear_chat_button(r) ==
    /\ pc[r] = "widgets"
    /\ messages' = Cleared(messages)
    /\ owners' = <<>>
    /\ retry' = NoRetry
    /\ pre' = [pre EXCEPT ![r] = messages]
    /\ feedback' = [feedback EXCEPT ![r] = [kind |-> "Cleared", code |-> 0]]
    /\ pc' = [pc EXCEPT ![r] = "cleared"]
    /\ UNCHANGED <<ollama_connected, ollama_status, user_text, payload,
                   response, posts, calls, last_check>>

\* lines 379-381: st.success("Chat cleared!"), time.sleep(1), st.rerun()
clear_rerun(r) ==
    /\ pc[r] = "cleared"
    /\ EndRun(r)
    /\ UNCHANGED <<messages, ollama_connected, calls, retry, last_check>>

\* lines 462-464: the chat form, submitted with user_input
chat_form_submit(r, user_input) ==
    /\ pc[r] = "widgets"
    /\ IF FormCalls(user_input, ollama_status[r])
       THEN /\ calls < MaxCalls
            /\ pc' = [pc EXCEPT ![r] = "validate"]
            /\ user_text' = [user_text EXCEPT ![r] = user_input]
            /\ pre' = [pre EXCEPT ![r] = messages]
            /\ calls' = calls + 1
            /\ UNCHANGED <<ollama_status, payload, response, feedback, posts,
                           owners>>
       ELSE /\ EndRun(r)
            /\ UNCHANGED calls
    /\ UNCHANGED <<messages, ollama_connected, retry, last_check>>

(* -------------------------- generate_response ------------------------- *)

\* history: the streak of failed calls after a call of text from base failed
Failed(streak, text, base) ==
    IF streak.fails > 0 /\ streak.text = text
    THEN [streak EXCEPT !.fails = @ + 1]
    ELSE [text |-> text, base |-> base, fails |-> 1]

\* lines 233-239: the two early returns
gr_validate(r) ==
    /\ pc[r] = "validate"
    /\ IF IsBlank(user_text[r])
       THEN /\ feedback' = [feedback EXCEPT ![r] = [kind |-> "EmptyInput", code |-> 0]]
            /\ pc' = [pc EXCEPT ![r] = "returned"]
            /\ retry' = Failed(retry, user_text[r], pre[r])
       ELSE IF Unavailable(ollama_connected)
       THEN /\ feedback' =
                 [feedback EXCEPT ![r] = [kind |-> "BackendUnavailable", code |-> 0]]
            /\ pc' = [pc EXCEPT ![r] = "returned"]
            /\ retry' = Failed(retry, user_text[r], pre[r])
       ELSE /\ pc' = [pc EXCEPT ![r] = "append"]
            /\ UNCHANGED <<feedback, retry>>
    /\ UNCHANGED <<messages, ollama_connected, ollama_status, user_text,
                   payload, response, pre, posts, calls, owners, last_check>>

\* line 243: the optimistic append
gr_append_user(r) ==
    /\ pc[r] = "append"
    /\ messages' = AppendUser(messages, user_text[r])
    /\ owners' = Append(owners, r)
    /\ pc' = [pc EXCEPT ![r] = "build"]
    /\ UNCHANGED <<ollama_connected, ollama_status, user_text, payload,
                   response, feedback, pre, posts, calls, retry, last_check>>

\* lines 249-270: the request payload
gr_build(r) ==
    /\ pc[r] = "build"
    /\ payload' = [payload EXCEPT ![r] = BuildMessages(SystemPrompt, messages)]
    /\ pc' = [pc EXCEPT ![r] = "post"]
    /\ UNCHANGED <<messages, ollama_connected, ollama_status, user_text,
                   response, feedback, pre, posts, calls, retry, owners,
                   last_check>>

\* lines 273-277: requests.post sends the payload and returns or raises
gr_post(r, res) ==
    /\ pc[r] = "post"
    /\ response' = [response EXCEPT ![r] = res]
    /\ posts' = [posts EXCEPT ![r] = @ + 1]
    /\ payload' = [payload EXCEPT ![r] = <<>>]
    /\ pc' = [pc EXCEPT ![r] = "handle"]
    /\ UNCHANGED <<messages, ollama_connected, ollama_status, user_text,
                   feedback, pre, calls, retry, owners, last_check>>

\* lines 279-284 and 290-309: the 200 branch up to the append of the
\* assistant turn, the else branch and the except clauses
gr_handle(r) ==
    /\ pc[r] = "handle"
    /\ IF Classify(response[r]).kind = "Success"
       THEN /\ messages' = AppendAssistant(messages, response[r])
            /\ owners' = Append(owners, r)
            /\ UNCHANGED <<retry, feedback>>
       ELSE /\ messages' = Rollback(messages)
            /\ owners' = SubSeq(owners, 1, Len(Rollback(messages)))
            /\ feedback' = [feedback EXCEPT ![r] = Classify(response[r])]
            /\ retry' = Failed(retry, user_text[r], pre[r])
    /\ pc' = [pc EXCEPT ![r] = AfterHandle(Classify(response[r]))]
    /\ UNCHANGED <<ollama_connected, ollama_status, user_text, payload,
                   response, pre, posts, calls, last_check>>

\* lines 287-288: st.success and time.sleep run inside the try; if one of
\* them raises, except Exception (306-309) shows the error and pops the last
\* turn if it is a user turn
gr_notify(r, raises) ==
    /\ pc[r] = "notify"
    /\ IF raises
       THEN /\ feedback' = [feedback EXCEPT ![r] = [kind |-> "Unknown", code |-> 0]]
            /\ messages' = Rollback(messages)
            /\ owners' = SubSeq(owners, 1, Len(Rollback(messages)))
       ELSE /\ feedback' = [feedback EXCEPT ![r] = Classify(response[r])]
            /\ UNCHANGED <<messages, owners>>
    /\ pc' = [pc EXCEPT ![r] = "returned"]
    /\ UNCHANGED <<ollama_connected, ollama_status, user_text, payload,
                   response, pre, posts, calls, retry, last_check>>

\* line 464: st.rerun() after generate_response returned
gr_return(r) ==
    /\ pc[r] = "returned"
    /\ retry' = IF Classify(response[r]).kind = "Success" THEN NoRetry ELSE retry
    /\ EndRun(r)
    /\ UNCHANGED <<messages, ollama_connected, calls, last_check>>

(* --------------------------- specifications --------------------------- *)

\* no other script run of the session is under way
Alone(r) == \A q \in Runs \ {r} : pc[q] = "idle"

\* a script run that starts when the session's previous run has ended
script_start_alone(r, res) == Alone(r) /\ script_start(r, res)

\* the script runs of a session one after the other (spec section 5: a
\* single in-flight request at a time)
Next ==
    \E r \in Runs :
        \/ \E res \in TagsResults : script_start_alone(r, res)
        \/ \E res \in TagsResults : refresh_button(r, res)
        \/ clear_chat_button(r)
        \/ clear_rerun(r)
        \/ \E text \in UserInputs : chat_form_submit(r, text)
        \/ gr_validate(r)
        \/ gr_append_user(r)
        \/ gr_build(r)
        \/ \E res \in PostResults : gr_post(r, res)
        \/ gr_handle(r)
        \/ \E raises \in BOOLEAN : gr_notify(r, raises)
        \/ gr_return(r)

Spec == Init /\ [][Next]_vars

SpecLong == InitLong /\ [][Next]_vars

\* the steps of the script run r from the call of generate_response to the
\* rerun: straight-line code, in which requests.post returns or raises
\* within its timeout and time.sleep(1) returns
RunStep(r) ==
    \/ gr_validate(r)
    \/ gr_append_user(r)
    \/ gr_build(r)
    \/ \E res \in PostResults : gr_post(r, res)
    \/ gr_handle(r)
    \/ \E raises \in BOOLEAN : gr_notify(r, raises)
    \/ gr_return(r)

\* the script runs one after the other, each call running to its end
SpecFair == Init /\ [][Next]_vars /\ \A r \in Runs : WF_vars(RunStep(r))

\* the outcomes of requests.post followed up when script runs overlap: a
\* timeout, a 500, and a 200 carrying a reply
OverlapPostResults ==
    { res \in PostResults :
        \/ res.exc = "Timeout"
        \/ res.status = 500
        \/ res.status = StatusOK /\ res.valid
              /\ AiResponse(res.json) = PyStr(<<"o", "k">>) }

\* the chat form within the call budget of the overlapping runs
chat_form_submit_overlap(r, user_input) ==
    /\ FormCalls(user_input, ollama_status[r]) => calls < MaxOverlapCalls
    /\ chat_form_submit(r, user_input)

\* a rerun starts while the previous run of the session is still blocked in
\* requests.post: both run against the same st.session_state
NextOverlap ==
    \E r \in Runs :
        \/ \E res \in TagsResults : script_start(r, res)
        \/ \E res \in TagsResults : refresh_button(r, res)
        \/ clear_chat_button(r)
        \/ clear_rerun(r)
        \/ \E text \in UserInputs : chat_form_submit_overlap(r, text)
        \/ gr_validate(r)
        \/ gr_append_user(r)
        \/ gr_build(r)
        \/ \E res \in OverlapPostResults : gr_post(r, res)
        \/ gr_handle(r)
        \/ \E raises \in BOOLEAN : gr_notify(r, raises)
        \/ gr_return(r)

SpecOverlap == Init /\ [][NextOverlap]_vars

(* ------------------------------- claims ------------------------------- *)

\* the call of run r has returned and the script has not gone on yet
Returned(r) == pc[r] = "returned"

\* the user turn of run r is appended and its request is unresolved
Pending(r) == pc[r] \in {"build", "post", "handle"}

\* the backend call of run r failed: it raised, answered another status
\* than 200, or its 200 answer made the try body raise
BackendFailed(r) ==
    \/ response[r].exc \notin {"none", "unset"}
    \/ response[r].exc = "none" /\ response[r].status # StatusOK
    \/ response[r].exc = "none" /\ BodyException(response[r]) # "none"

\* the 200 answer of run r carries message.content as a string
WellFormedReply(r) ==
    /\ response[r].exc = "none" /\ response[r].status = StatusOK
    /\ response[r].valid /\ response[r].json.t = "dict"
    /\ \E m \in response[r].json.items :
         /\ m[1] = "message" /\ m[2].t = "dict"
         /\ \E c \in m[2].items : c[1] = "content" /\ c[2].t = "str"

\* message.content of a well-formed reply
ReplyText(r) ==
    LET m == CHOOSE m \in response[r].json.items : m[1] = "message"
    IN  (CHOOSE c \in m[2].items : c[1] = "content")[2]

\* C1: after a submit whose backend call failed (timeout, connection
\* error, non-200 status, any other exception) the transcript equals the
\* transcript before the call, in length and in content.
C1_FailureLeavesTranscript ==
    \A r \in Runs :
        (Returned(r) /\ BackendFailed(r)) =>
            (Len(messages) = Len(pre[r]) /\ messages = pre[r])

\* a timed-out submit has returned on a transcript that held an exchange
C1_Witness ==
    \E r \in Runs :
        /\ Returned(r) /\ response[r].exc = "Timeout"
        /\ posts[r] = 1 /\ Len(pre[r]) >= 2

\* C2: a successful submit of a non-empty text leaves the transcript before
\* the call followed by exactly the user turn holding the text as typed and
\* the assistant turn holding the reply.
C2_SuccessAppendsTwo ==
    \A r \in Runs :
        (Returned(r) /\ WellFormedReply(r)) =>
            /\ Len(messages) = Len(pre[r]) + 2
            /\ messages = pre[r] \o <<Turn("user", PyStr(user_text[r])),
                                      Turn("assistant", ReplyText(r))>>

\* a text with blanks around it was answered on a non-empty transcript
C2_Witness ==
    \E r \in Runs :
        /\ Returned(r) /\ WellFormedReply(r)
        /\ user_text[r] = <<" ", "y", "o", " ">> /\ Len(pre[r]) >= 2

\* C3: when no request is unresolved, every user turn of the transcript is
\* directly followed by an assistant turn, so the transcript does not end
\* with an unanswered user turn.
C3_NoOrphanUserTurn ==
    (\A r \in Runs : ~Pending(r)) =>
        \A i \in 1..Len(messages) :
            messages[i].role = "user" =>
                (i < Len(messages) /\ messages[i + 1].role = "assistant")

\* a submit that failed with a bad status has returned after an earlier
\* exchange was stored
C3_Witness ==
    \E r \in Runs :
        /\ Returned(r) /\ feedback[r].kind = "BadStatus"
        /\ Len(messages) >= 2

\* run r got a 200 answer
Answer200(r) == response[r].exc = "none" /\ response[r].status = StatusOK

\* the 200 body of run r is a JSON object
BodyIsObject(r) == response[r].valid /\ response[r].json.t = "dict"

\* ... without a 'message' key
MessageMissing(r) ==
    BodyIsObject(r) /\ ~\E m \in response[r].json.items : m[1] = "message"

\* ... whose 'message' is an object without a 'content' key
ContentMissing(r) ==
    /\ BodyIsObject(r)
    /\ \E m \in response[r].json.items :
         /\ m[1] = "message" /\ m[2].t = "dict"
         /\ ~\E c \in m[2].items : c[1] = "content"

\* ... whose 'message' is not an object
MessageNotObject(r) ==
    /\ BodyIsObject(r)
    /\ \E m \in response[r].json.items : m[1] = "message" /\ m[2].t # "dict"

\* the transcript before the call of run r plus its user turn and the
\* assistant turn holding the fallback string
WithFallback(r) ==
    pre[r] \o <<Turn("user", PyStr(user_text[r])),
                Turn("assistant", PyStr(FallbackText))>>

\* C4 as claimed: a 200 answer whose reply field is missing or malformed in
\* any of the four ways (no 'message', 'message' not an object, 'message'
\* without 'content', body not the expected structure) is no failure: the
\* user turn and the fallback assistant turn are appended, nothing is rolled
\* back.
C4_Original ==
    \A r \in Runs :
        ( /\ Returned(r) /\ Answer200(r)
          /\ \/ MessageMissing(r) \/ MessageNotObject(r)
             \/ ContentMissing(r) \/ ~BodyIsObject(r) ) =>
            (Classify(response[r]).kind = "Success" /\ messages = WithFallback(r))

\* C4 as amended: a 200 answer that is a JSON object without 'message', or
\* whose 'message' is an object without 'content', is no failure and appends
\* the user turn and the fallback assistant turn; a 200 answer that is not
\* valid JSON, not an object, or whose 'message' is not an object ends in the
\* unexpected-error branch and the user turn is rolled back.
C4_FallbackOnlyWhenKeyMissing ==
    \A r \in Runs :
        (Returned(r) /\ Answer200(r)) =>
            /\ (MessageMissing(r) \/ ContentMissing(r)) =>
                 (Classify(response[r]).kind = "Success"
                    /\ messages = WithFallback(r))
            /\ (MessageNotObject(r) \/ ~BodyIsObject(r)) =>
                 (feedback[r].kind = "Unknown" /\ messages = pre[r])

\* a 200 answer without a 'message' key was answered with the fallback on a
\* non-empty transcript
C4_Witness ==
    \E r \in Runs :
        /\ Returned(r) /\ Answer200(r) /\ MessageMissing(r)
        /\ Len(pre[r]) >= 2 /\ Len(messages) = Len(pre[r]) + 2

\* C5: at most one submit of a session is pending (user turn appended,
\* request unresolved) at any time.
C5_OnePending == Cardinality({r \in Runs : Pending(r)}) <= 1

\* the request of run r is built and in flight
InFlight(r) == pc[r] = "post"

\* C6: the outbound list holds one system turn and at most historyWindow
\* turns of the transcript, however long the stored transcript is.
C6_PayloadBounded ==
    \A r \in Runs :
        InFlight(r) =>
            /\ Len(payload[r]) <= HistoryWindow + 1
            /\ Cardinality({i \in 1..Len(payload[r]) :
                              payload[r][i].role # "system"}) <= HistoryWindow

\* a request is in flight on a stored transcript longer than the window
C6_Witness ==
    \E r \in Runs :
        /\ InFlight(r) /\ Len(messages) > HistoryWindow + 2
        /\ Len(payload[r]) = HistoryWindow + 1

\* the smaller of two numbers
Min(a, b) == IF a < b THEN a ELSE b

\* C7: the outbound list is the system turn carrying the system prompt,
\* then the last min(historyWindow, len) turns of the transcript in stored
\* order; the transcript holds the user turn just appended, so the last
\* outbound message is the current user message, and only the first is a
\* system turn.
C7_PayloadShape ==
    \A r \in Runs :
        InFlight(r) =>
            LET n == Len(messages)
                k == Min(HistoryWindow, n)
            IN  /\ Len(payload[r]) = k + 1
                /\ payload[r][1] = Turn("system", PyStr(SystemPrompt))
                /\ \A i \in 1..k : payload[r][1 + i] = messages[n - k + i]
                /\ payload[r][k + 1] = Turn("user", PyStr(user_text[r]))
                /\ \A i \in 2..(k + 1) : payload[r][i].role # "system"

\* a request is in flight whose window dropped the oldest stored turn
C7_Witness ==
    \E r \in Runs :
        /\ InFlight(r) /\ Len(messages) = HistoryWindow + 1
        /\ payload[r][2] = messages[2]

\* a text that is empty or holds only whitespace
OnlyWhitespace(text) == \A i \in 1..Len(text) : text[i] \in Whitespace

\* run r leaves the validation of generate_response in this step
Validates(r) == pc[r] = "validate" /\ pc'[r] # "validate"

\* C8: a submit whose text is empty or only whitespace does not change the
\* transcript, sends no request and ends as EmptyInput, whether the backend
\* is recorded reachable or not; the first test of generate_response holds
\* of exactly these texts, and no such text gets past the validation.
C8_BlankInput ==
    /\ [](\A text \in UserInputs : IsBlank(text) <=> OnlyWhitespace(text))
    /\ [][\A r \in Runs :
            (Validates(r) /\ OnlyWhitespace(user_text[r])) =>
                /\ pc'[r] = "returned"
                /\ feedback'[r].kind = "EmptyInput"
                /\ messages' = messages
                /\ posts'[r] = 0]_vars
    /\ [](\A r \in Runs :
            /\ (pc[r] \in {"append", "build", "post", "handle"}) =>
                   ~OnlyWhitespace(user_text[r])
            /\ (Returned(r) /\ OnlyWhitespace(user_text[r])) =>
                   (feedback[r].kind = "EmptyInput" /\ posts[r] = 0))

\* a whitespace-only submit has returned while the backend is recorded
\* unreachable and the transcript holds an exchange
C8_Witness ==
    \E r \in Runs :
        /\ Returned(r) /\ user_text[r] = <<" ", "\t">>
        /\ feedback[r].kind = "EmptyInput"
        /\ ~ollama_connected /\ Len(messages) >= 2

\* C9: a submit of a non-empty text while ollama_connected is false ends as
\* BackendUnavailable, does not change the transcript and issues no POST.
C9_BackendUnavailable ==
    /\ [][\A r \in Runs :
            (Validates(r) /\ ~OnlyWhitespace(user_text[r]) /\ ~ollama_connected) =>
                /\ pc'[r] = "returned"
                /\ feedback'[r].kind = "BackendUnavailable"
                /\ messages' = messages
                /\ posts'[r] = 0]_vars
    /\ [](\A r \in Runs :
            (Returned(r) /\ feedback[r].kind = "BackendUnavailable") =>
                posts[r] = 0)

\* a submit has returned as BackendUnavailable on a transcript that holds
\* an exchange
C9_Witness ==
    \E r \in Runs :
        /\ Returned(r) /\ feedback[r].kind = "BackendUnavailable"
        /\ ~OnlyWhitespace(user_text[r]) /\ Len(messages) >= 2

C12_Lifecycle ==
    /\ \A r \in Runs : Pending(r) ~> Returned(r)
    /\ \A r \in Runs : Returned(r) ~> (pc[r] = "idle")
    /\ [][\A r \in Runs :
            /\ (pc[r] = "append" /\ pc'[r] # "append") =>
                   /\ pc'[r] = "build"
                   /\ messages' = pre[r] \o <<Turn("user", PyStr(user_text[r]))>>
            /\ (Pending(r) /\ pc'[r] \notin {"build", "post", "handle"}) =>
                   /\ pc[r] = "handle" /\ pc'[r] \in {"notify", "returned"}
                   /\ \/ /\ pc'[r] = "notify"
                         /\ Len(messages') = Len(pre[r]) + 2
                         /\ SubSeq(messages', 1, Len(messages)) = messages
                         /\ messages'[Len(messages')].role = "assistant"
                      \/ /\ pc'[r] = "returned"
                         /\ messages' = pre[r]
                   /\ response[r].exc \in {"Timeout", "ConnectTimeout"} =>
                          (pc'[r] = "returned" /\ messages' = pre[r])
            /\ (pc[r] = "returned" /\ pc'[r] # "returned") => pc'[r] = "idle"
         ]_vars

\* a request that timed out after an earlier exchange was rolled back
C12_Witness ==
    \E r \in Runs :
        /\ Returned(r) /\ response[r].exc = "Timeout" /\ posts[r] = 1
        /\ user_text[r] = <<"h", "i">>
        /\ Len(pre[r]) = 2 /\ messages = pre[r]

\* C13: the Clear Chat handler takes the transcript, whatever its size, to
\* the empty transcript in one step; while the handler goes on the transcript
\* is empty, and no step leaves a transcript that is cleared only in part.
C13_ClearEmpties ==
    [][ /\ \A r \in Runs :
              /\ (pc[r] = "widgets" /\ pc'[r] = "cleared") =>
                     (pre'[r] = messages /\ messages' = <<>>)
              /\ pc[r] = "cleared" => (messages = <<>> /\ messages' = <<>>)
        /\ Len(messages') < Len(messages) - 1 => messages' = <<>>
      ]_vars

\* a transcript longer than the history window was cleared
C13_Witness ==
    \E r \in Runs :
        /\ pc[r] = "cleared" /\ feedback[r].kind = "Cleared"
        /\ Len(pre[r]) > HistoryWindow
        /\ messages = <<>>

\* run r is inside generate_response, or has just returned from it
InCall(r) ==
    pc[r] \in {"validate", "append", "build", "post", "handle", "notify", "returned"}

\* s is a prefix of t
IsPrefix(s, t) == Len(s) <= Len(t) /\ SubSeq(t, 1, Len(s)) = s

\* C14: during and after a submit the pre-call transcript is a prefix of the
\* stored transcript, so no earlier turn is modified, reordered or removed;
\* while the windowed payload is in flight the stored transcript still is
\* the whole pre-call transcript plus the user turn, however many old turns
\* the payload left out.
C14_PriorTurnsKept ==
    \A r \in Runs :
        /\ InCall(r) => IsPrefix(pre[r], messages)
        /\ InFlight(r) =>
              /\ messages = pre[r] \o <<Turn("user", PyStr(user_text[r]))>>
              /\ Len(payload[r]) = Min(Len(messages), HistoryWindow) + 1

\* a payload that left old turns out is in flight and the stored transcript
\* still holds every turn
C14_Witness ==
    \E r \in Runs :
        /\ InFlight(r) /\ Len(pre[r]) > HistoryWindow
        /\ Len(payload[r]) < Len(messages)
        /\ IsPrefix(pre[r], messages)

\* C15: a call of generate_response issues at most one POST /api/chat: none
\* before line 273, none at all when it returns EmptyInput or
\* BackendUnavailable, and exactly one once the request was made, whatever
\* its outcome.
C15_NoRetry ==
    \A r \in Runs :
        /\ posts[r] <= 1
        /\ pc[r] \in {"validate", "append", "build", "post"} => posts[r] = 0
        /\ feedback[r].kind \in {"EmptyInput", "BackendUnavailable"} => posts[r] = 0
        /\ pc[r] \in {"handle", "notify"} => posts[r] = 1
        /\ (Returned(r) /\ feedback[r].kind \notin {"EmptyInput", "BackendUnavailable"})
              => posts[r] = 1

\* the second call of the session timed out after its one request
C15_Witness ==
    \E r \in Runs :
        /\ Returned(r) /\ feedback[r].kind = "Timeout"
        /\ calls = 2 /\ posts[r] = 1

\* an HTTP status of the 2xx class
Is2xx(status) == status \div 100 = 2

\* C16: ollama_connected is true only if the latest GET /api/tags was
\* answered with a 2xx status: after a status outside 2xx or a network error
\* it is false, after a 200 it is true, whatever the checks before it gave;
\* before the first check it is false.
C16_FlagReflectsCheck ==
    /\ ollama_connected => (last_check.exc = "none" /\ Is2xx(last_check.status))
    /\ (last_check.exc \in {"Timeout", "ConnectionError"}
          \/ (last_check.exc = "none" /\ ~Is2xx(last_check.status)))
         => ~ollama_connected
    /\ (last_check.exc = "none" /\ last_check.status = StatusOK) => ollama_connected
    /\ last_check = NoCheck => ~ollama_connected

\* a check failed with a connection error after an earlier check had
\* succeeded and an exchange was stored
C16_Witness ==
    /\ last_check.exc = "ConnectionError" /\ ~ollama_connected
    /\ Len(messages) >= 2

\* the positions of the turns that the call of run r appended
Mine(r) == {i \in 1..Len(owners) : owners[i] = r}

\* msgs without the turns at the positions in gone
Without(msgs, gone) ==
    LET keep == {i \in 1..Len(msgs) : i \notin gone}
        nth(j) == CHOOSE i \in keep : Cardinality({k \in keep : k < i}) = j - 1
    IN  [j \in 1..Cardinality(keep) |-> msgs[nth(j)]]

\* C17: the rollback of a failing submit removes exactly the user turn that
\* this submit appended, if it is still stored, and no other turn; and a
\* handler that runs after the assistant turn was appended removes no turn
\* of another submit either.
C17_RollbackRemovesOwnTurn ==
    [][\A r \in Runs :
          /\ (pc[r] = "handle" /\ pc'[r] = "returned") =>
                 messages' = Without(messages, Mine(r))
          /\ (pc[r] \in {"handle", "notify"} /\ pc'[r] = "returned"
                /\ Len(messages') < Len(messages)) =>
                 /\ Len(messages') = Len(messages) - 1
                 /\ owners[Len(messages)] = r
                 /\ messages[Len(messages)].role = "user"
      ]_vars

\* C18: whenever no submit is between its append and its resolution, the
\* stored transcript has even length and its roles alternate user,
\* assistant, user, assistant, ... from a user turn on; no stored turn ever
\* has the role system, which only the first entry of an outbound payload
\* has.
C18_Alternates ==
    /\ (\A r \in Runs : ~Pending(r)) =>
          /\ Len(messages) % 2 = 0
          /\ \A i \in 1..Len(messages) :
                messages[i].role = IF i % 2 = 1 THEN "user" ELSE "assistant"
    /\ \A i \in 1..Len(messages) : messages[i].role # "system"
    /\ \A r \in Runs :
          InFlight(r) =>
              /\ payload[r][1].role = "system"
              /\ \A i \in 2..Len(payload[r]) : payload[r][i].role # "system"

\* every run is idle after two stored exchanges and a failed submit
C18_Witness ==
    /\ \A r \in Runs : pc[r] = "idle"
    /\ Len(messages) = 4 /\ calls = 3
    /\ messages[3].role = "user" /\ messages[4].role = "assistant"

\* the pre-call transcript of run r plus its user turn and an assistant turn
\* holding what line 281 extracted
PlusExchange(r) ==
    pre[r] \o << Turn("user", PyStr(user_text[r])),
                 Turn("assistant", AiResponse(response[r].json)) >>

\* C19: a returned call, an exception raised after the assistant turn was
\* appended included, leaves the pre-call transcript or the pre-call
\* transcript plus [user turn, assistant turn], the latter only when no
\* error was surfaced.
C19_TwoShapes ==
    \A r \in Runs :
        Returned(r) =>
            /\ messages = pre[r] \/ messages = PlusExchange(r)
            /\ messages = PlusExchange(r) => feedback[r].kind = "Success"

====
